---- MODULE Spec2Model ----
(***************************************************************************)
(* Model of src/applied_app.py: the Streamlit script that classifies one   *)
(* patient's vital readings, synthesizes a 24-point hourly timeline, fits  *)
(* an ARIMA(1,1,1) model on the derived binary series and assembles an     *)
(* Excel report with three tables, three chart images and one annotation.  *)
(*                                                                         *)
(* The script is straight-line code; one action models one statement (or   *)
(* one group of adjacent statements) and pc names the next statement.  A   *)
(* call into a library that may raise (statsmodels, matplotlib, pandas,    *)
(* xlsxwriter) has two outcomes: it returns, or it raises; the script has  *)
(* no try/except, so a raised exception ends the run (pc = "aborted").     *)
(*                                                                         *)
(* Units: pressures, pulse and SPO2 are integers; temperature is kept in   *)
(* hundredths of a degree Celsius (36.5 is 3650), the step of a Streamlit  *)
(* float slider; instants are whole hours.                                 *)
(***************************************************************************)
EXTENDS Integers, Sequences, FiniteSets, TLC

VARIABLES pc, failed,
          systolic, diastolic, pulse, temperature, spo2,
          input_data, predicted_condition, disease_suggestion,
          page, shown,
          today, time_data, condition_data, plot_data,
          model_fit, future_pred,
          report_buffer, writer, workbook, worksheet, condition_counts,
          image, download

sliders   == <<systolic, diastolic, pulse, temperature, spo2>>
predicted == <<input_data, predicted_condition, disease_suggestion>>
timeline  == <<today, time_data, condition_data>>
arima     == <<model_fit, future_pred>>
report    == <<report_buffer, writer, workbook, worksheet, condition_counts,
               image, download>>
vars == <<pc, failed, sliders, predicted, page, shown, timeline, plot_data,
          arima, report>>

(***************************************************************************)
(* Bounds of the model.                                                    *)
(***************************************************************************)
\* Readings are drawn within InputMargin units of every slider end, every
\* threshold and the slider default.
InputMargin == 1
\* The run starts on one of the days 0..MaxDay.
MaxDay == 1
\* A rendered PNG has 1..MaxImageBytes bytes.
MaxImageBytes == 2

(***************************************************************************)
(* Program constants.                                                      *)
(***************************************************************************)
\* st.sidebar.slider(label, min, max, default)
SystolicSlider    == <<70, 180, 110>>
DiastolicSlider   == <<40, 120, 75>>
PulseSlider       == <<40, 180, 85>>
TemperatureSlider == <<3500, 4000, 3700>>
Spo2Slider        == <<70, 100, 98>>

\* pd.date_range(..., periods=24, freq="H")
Periods == 24
\* ["..."] * 18 + ["..."] * 6
MajorityCount == 18
MinorityCount == 6
\* model_fit.forecast(steps=24)
ForecastSteps == 24
HoursPerDay == 24

Charts == <<"pie", "bar", "ts">>

(***************************************************************************)
(* Helper functions of the script.                                         *)
(***************************************************************************)
\* The classifier with the lower systolic bound exclusive.
classify_patient_condition_strict(s, d, p, temp, o) ==
    IF /\ 90 < s /\ s <= 120
       /\ 60 <= d /\ d <= 80
       /\ 60 <= p /\ p <= 100
       /\ 3650 <= temp /\ temp <= 3750
       /\ 95 <= o /\ o <= 100
    THEN "Normal"
    ELSE "At Risk"

classify_patient_condition(s, d, p, temp, o) ==
    IF /\ 90 <= s /\ s <= 120
       /\ 60 <= d /\ d <= 80
       /\ 60 <= p /\ p <= 100
       /\ 3650 <= temp /\ temp <= 3750
       /\ 95 <= o /\ o <= 100
    THEN "Normal"
    ELSE "At Risk"

disease_recommendation(condition) ==
    IF condition = "Normal"
    THEN "No immediate diseases suggested based on normal readings."
    ELSE "Possibilities include hypertension, heart disease, respiratory issues, or other conditions requiring further medical assessment."

\* [x] * n
Repeat(x, n) == [i \in 1..n |-> x]

\* The range starting one hour late.
date_range_late(start, periods) == [i \in 1..periods |-> start + i]

\* pd.date_range(start, periods, freq="H"): one instant per hour from start.
date_range(start, periods) == [i \in 1..periods |-> start + (i - 1)]

\* The timeline carrying the predicted label at every point.
split_condition_data_uniform(predicted_label) ==
    Repeat(predicted_label, MajorityCount + MinorityCount)

\* The if/else that builds condition_data.
split_condition_data(predicted_label) ==
    IF predicted_label = "Normal"
    THEN Repeat("Normal", MajorityCount) \o Repeat("At Risk", MinorityCount)
    ELSE Repeat("At Risk", MajorityCount) \o Repeat("Normal", MinorityCount)

\* pd.DataFrame({"Time": ..., "Condition": ...})
make_plot_data(times, conditions) ==
    [columns          |-> <<"Time", "Condition">>,
     Time             |-> times,
     Condition        |-> conditions,
     Condition_Binary |-> <<>>]

\* lambda x: 1 if x == "At Risk" else 0 (inside plot_time_series)
time_series_flag(x) == IF x = "At Risk" THEN 1 ELSE 0

\* The flag with its two outcomes exchanged.
condition_binary_flag_inverted(x) == IF x = "At Risk" THEN 0 ELSE 1

\* lambda x: 1 if x == "At Risk" else 0 (the Condition_Binary column)
condition_binary_flag(x) == IF x = "At Risk" THEN 1 ELSE 0

\* The assignment storing the flags, as text, in the Condition column too.
with_condition_binary_relabel(data) ==
    [data EXCEPT !.columns = <<"Time", "Condition", "Condition_Binary">>,
                 !.Condition =
                     [i \in DOMAIN data.Condition |->
                         IF data.Condition[i] = "At Risk" THEN "1" ELSE "0"],
                 !.Condition_Binary =
                     [i \in DOMAIN data.Condition |->
                         IF data.Condition[i] = "At Risk" THEN 1 ELSE 0]]

\* plot_data['Condition_Binary'] = plot_data["Condition"].apply(...)
with_condition_binary(data) ==
    [data EXCEPT !.columns = <<"Time", "Condition", "Condition_Binary">>,
                 !.Condition_Binary =
                     [i \in DOMAIN data.Condition |->
                         condition_binary_flag(data.Condition[i])]]

CountOf(col, label) == Cardinality({i \in DOMAIN col : col[i] = label})

\* The distinct values of a column in order of first appearance.
RECURSIVE Unique(_)
Unique(col) ==
    IF col = <<>> THEN <<>>
    ELSE LET rest == Unique(SubSeq(col, 1, Len(col) - 1))
             last == col[Len(col)]
         IN  IF \E i \in DOMAIN rest : rest[i] = last THEN rest
             ELSE Append(rest, last)

\* Stable insertion of a label into a list ordered by descending count.
RECURSIVE InsertByCount(_, _, _)
InsertByCount(sorted, label, col) ==
    IF sorted = <<>> THEN <<label>>
    ELSE IF CountOf(col, sorted[Len(sorted)]) >= CountOf(col, label)
         THEN Append(sorted, label)
         ELSE Append(InsertByCount(SubSeq(sorted, 1, Len(sorted) - 1),
                                   label, col),
                     sorted[Len(sorted)])

RECURSIVE SortByCount(_, _)
SortByCount(labels, col) ==
    IF labels = <<>> THEN <<>>
    ELSE InsertByCount(SortByCount(SubSeq(labels, 1, Len(labels) - 1), col),
                       labels[Len(labels)], col)

\* Series.value_counts(): one row per distinct value, most frequent first.
value_counts(col) ==
    LET idx == SortByCount(Unique(col), col)
    IN  [index |-> idx, values |-> [i \in DOMAIN idx |-> CountOf(col, idx[i])]]

\* The labels in ascending string order, the order groupby sorts its keys.
SortedLabels == <<"At Risk", "Normal">>

\* DataFrame.groupby("Condition").size(): one row per present key, keys sorted.
groupby_size(col) ==
    LET idx == SelectSeq(SortedLabels, LAMBDA l : CountOf(col, l) > 0)
    IN  [index |-> idx, values |-> [i \in DOMAIN idx |-> CountOf(col, idx[i])]]

(***************************************************************************)
(* Charting functions.  A figure is what the chart is drawn from.          *)
(***************************************************************************)
plot_condition_distribution(data) ==
    LET counts == value_counts(data.Condition)
    IN  [kind |-> "pie", labels |-> counts.index, values |-> counts.values,
         x |-> <<>>]

plot_hourly_condition_counts(data) ==
    LET counts == groupby_size(data.Condition)
    IN  [kind |-> "bar", labels |-> counts.index, values |-> counts.values,
         x |-> <<>>]

plot_time_series(data) ==
    [kind |-> "line", labels |-> <<>>,
     values |-> [i \in DOMAIN data.Condition |->
                    time_series_flag(data.Condition[i])],
     x |-> data.Time]

plot(k, data) ==
    CASE k = "pie" -> plot_condition_distribution(data)
      [] k = "bar" -> plot_hourly_condition_counts(data)
      [] k = "ts"  -> plot_time_series(data)

(***************************************************************************)
(* Display: st.title / st.subheader / st.write / st.pyplot append to page. *)
(***************************************************************************)
Item(kind, body) == [kind |-> kind, body |-> body]

\* st.title(...) and st.sidebar.header(...), emitted before the sliders.
app_setup ==
    << Item("title", "Patient Condition Prediction App"),
       Item("sidebar.header", "Patient Input Features") >>

\* The block without the line that writes the predicted condition.
main_output_no_label(label, advice) ==
    << Item("subheader", "Patient Condition Prediction"),
       Item("write", "### Input Parameters"),
       Item("write", "input_data"),
       Item("write", "### Suggested Disease Considerations"),
       Item("write", advice) >>

\* The "Main output" block.
main_output(label, advice) ==
    << Item("subheader", "Patient Condition Prediction"),
       Item("write", "Predicted Condition: **" \o label \o "**"),
       Item("write", "### Input Parameters"),
       Item("write", "input_data"),
       Item("write", "### Suggested Disease Considerations"),
       Item("write", advice) >>

chart_heading(k) ==
    CASE k = "pie" -> "#### Condition Distribution"
      [] k = "bar" -> "#### Hourly Condition Counts"
      [] k = "ts"  -> "#### Time Series of Patient Condition"

(***************************************************************************)
(* Spreadsheet: cells are <<row, col>>, zero-based as pandas and           *)
(* xlsxwriter count them; a cell value is tagged with its type.            *)
(***************************************************************************)
Num(n)  == <<"number", n>>
Str(s)  == <<"string", s>>
Date(t) == <<"datetime", t>>

\* xlsxwriter's A1-notation conversion, for the cells the script names.
xl_cell_to_rowcol(cell) ==
    CASE cell = "B2"  -> <<1, 1>>
      [] cell = "G2"  -> <<1, 6>>
      [] cell = "G20" -> <<19, 6>>
      [] cell = "G40" -> <<39, 6>>

\* The cells DataFrame.to_excel / Series.to_excel writes: the header in row 0
\* (with the index name, when the index has one, in column 0), then one row
\* per record with the index value in column 0.
to_excel_cells(t) ==
    LET dom == {rc \in (0..Len(t.rows)) \X (0..Len(t.header)) :
                   ~(rc = <<0, 0>> /\ t.index_label = "")}
    IN  [rc \in dom |->
            IF rc[1] = 0
            THEN (IF rc[2] = 0 THEN Str(t.index_label)
                  ELSE Str(t.header[rc[2]]))
            ELSE (IF rc[2] = 0 THEN t.index[rc[1]]
                  ELSE t.rows[rc[1]][rc[2]])]

\* input_data as a table: a default RangeIndex and the five columns.
input_table(data) ==
    [header |-> data.columns, index_label |-> "",
     index |-> [i \in DOMAIN data.rows |-> Num(i - 1)],
     rows |-> [i \in DOMAIN data.rows |->
                  [j \in DOMAIN data.rows[i] |-> Num(data.rows[i][j])]]]

\* plot_data as a table: a default RangeIndex and the columns it has.
plot_table(data) ==
    [header |-> data.columns, index_label |-> "",
     index |-> [i \in DOMAIN data.Time |-> Num(i - 1)],
     rows |-> [i \in DOMAIN data.Time |->
                  << Date(data.Time[i]), Str(data.Condition[i]) >>
                  \o (IF Len(data.columns) = 3
                      THEN << Num(data.Condition_Binary[i]) >>
                      ELSE << >>)]]

\* condition_counts as a table: the labels are the index (named after the
\* column) and the counts the only column (named "count", pandas >= 2.0).
counts_table(counts) ==
    [header |-> <<"count">>, index_label |-> "Condition",
     index |-> [i \in DOMAIN counts.index |-> Str(counts.index[i])],
     rows |-> [i \in DOMAIN counts.index |-> << Num(counts.values[i]) >>]]

EmptyWorkbook == [sheets |-> <<>>, cells |-> <<>>, images |-> <<>>]

HasSheet(wb, name) == \E i \in DOMAIN wb.sheets : wb.sheets[i] = name

\* <table>.to_excel(writer, sheet_name=name): adds the sheet, writes the cells.
to_excel(wb, name, t) ==
    [wb EXCEPT !.sheets = Append(@, name),
               !.cells  = (name :> to_excel_cells(t)) @@ @]

\* worksheet.write(cell, text): a later write to a cell replaces its value.
worksheet_write(wb, name, cell, text) ==
    [wb EXCEPT !.cells =
        (name :> ((xl_cell_to_rowcol(cell) :> Str(text)) @@ wb.cells[name]))
        @@ @]

\* worksheet.insert_image(cell, filename, {'image_data': buf}): the image is
\* anchored at the cell and floats over the grid; no cell value is written.
insert_image(wb, name, cell, filename, buf) ==
    [wb EXCEPT !.images =
        Append(@, [sheet |-> name, anchor |-> xl_cell_to_rowcol(cell),
                   filename |-> filename, data |-> buf.data,
                   size |-> buf.size, pos |-> buf.pos])]

(***************************************************************************)
(* In-memory streams (io.BytesIO).                                         *)
(***************************************************************************)
BytesIO == [data |-> <<>>, size |-> 0, pos |-> 0]

\* Writing n bytes of content at the cursor of an empty stream.
stream_write(buf, content, n) ==
    [data |-> <<content>>, size |-> buf.pos + n, pos |-> buf.pos + n]

\* A seek that leaves the cursor where it is.
seek_ignored(buf, offset) == buf

\* buf.seek(offset)
seek(buf, offset) == [buf EXCEPT !.pos = offset]

RECURSIVE SumSizes(_)
SumSizes(imgs) ==
    IF imgs = <<>> THEN 0
    ELSE imgs[Len(imgs)].size + SumSizes(SubSeq(imgs, 1, Len(imgs) - 1))

RECURSIVE CellCount(_, _)
CellCount(wb, names) ==
    IF names = <<>> THEN 0
    ELSE Cardinality(DOMAIN wb.cells[names[Len(names)]])
         + CellCount(wb, SubSeq(names, 1, Len(names) - 1))

\* The size of the file the writer produces: it grows with every cell and
\* with every embedded image.
file_size(wb) == 1 + CellCount(wb, wb.sheets) + SumSizes(wb.images)

\* writer.close(): the workbook is serialized into the report stream.
writer_close(buf, wb) == stream_write(buf, wb, file_size(wb))

(***************************************************************************)
(* Exceptions.  Nothing in the script catches one: the run ends where the  *)
(* exception was raised.                                                   *)
(***************************************************************************)
\* A handler around the with block that swallows the exception and goes on
\* to the statements after the block.
on_exception_swallowed(at) ==
    IF at \in {"arima", "forecast", "open_writer", "close"}
          \cup {"show_" \o Charts[k] : k \in DOMAIN Charts}
    THEN "aborted"
    ELSE "seek_report"

on_exception(at) == "aborted"

(***************************************************************************)
(* Initial states: the page header is out and the sliders hold a reading.  *)
(***************************************************************************)
\* The ranges the classifier tests, as <<low, high>>, used to pick readings.
SystolicNormal    == <<90, 120>>
DiastolicNormal   == <<60, 80>>
PulseNormal       == <<60, 100>>
TemperatureNormal == <<3650, 3750>>
Spo2Normal        == <<95, 100>>

Around(v) == (v - InputMargin)..(v + InputMargin)

\* Readings for the classifier alone: the slider ends, one step beyond each
\* end, the default, and everything within InputMargin of a threshold.
ClassifyInputs(slider, normal) ==
    {slider[1] - 1, slider[1], slider[2], slider[2] + 1, slider[3]}
    \cup Around(normal[1]) \cup Around(normal[2])

\* Readings for a whole run: slider minimum, default, upper threshold.
RunInputs(slider, normal) == {slider[1], slider[3], normal[2]}

NoFrame == [columns |-> <<>>, Time |-> <<>>, Condition |-> <<>>,
            Condition_Binary |-> <<>>]

InitRun ==
    /\ pc = "classify"
    /\ failed = ""
    /\ input_data = [columns |-> <<>>, rows |-> <<>>]
    /\ predicted_condition = ""
    /\ disease_suggestion = ""
    /\ page = app_setup
    /\ shown = <<>>
    /\ today = 0
    /\ time_data = <<>>
    /\ condition_data = <<>>
    /\ plot_data = NoFrame
    /\ model_fit = "none"
    /\ future_pred = <<>>
    /\ report_buffer = BytesIO
    /\ writer = "none"
    /\ workbook = EmptyWorkbook
    /\ worksheet = ""
    /\ condition_counts = [index |-> <<>>, values |-> <<>>]
    /\ image = [k \in {"pie", "bar", "ts"} |-> BytesIO]
    /\ download = <<>>

Init ==
    /\ systolic \in RunInputs(SystolicSlider, SystolicNormal)
    /\ diastolic \in RunInputs(DiastolicSlider, DiastolicNormal)
    /\ pulse \in RunInputs(PulseSlider, PulseNormal)
    /\ temperature \in RunInputs(TemperatureSlider, TemperatureNormal)
    /\ spo2 \in RunInputs(Spo2Slider, Spo2Normal)
    /\ InitRun

InitClassify ==
    /\ systolic \in ClassifyInputs(SystolicSlider, SystolicNormal)
    /\ diastolic \in ClassifyInputs(DiastolicSlider, DiastolicNormal)
    /\ pulse \in ClassifyInputs(PulseSlider, PulseNormal)
    /\ temperature \in ClassifyInputs(TemperatureSlider, TemperatureNormal)
    /\ spo2 \in ClassifyInputs(Spo2Slider, Spo2Normal)
    /\ InitRun

(***************************************************************************)
(* The statements of the script.                                           *)
(***************************************************************************)
\* An exception outside the with block.
Raise(at) ==
    /\ pc' = on_exception(at)
    /\ failed' = at

\* An exception inside the with block: ExcelWriter.__exit__ closes the
\* writer, which serializes what the workbook holds so far, and the
\* exception goes on.
RaiseInWith(at) ==
    /\ pc' = on_exception(at)
    /\ failed' = at
    /\ writer' = "closed"
    /\ report_buffer' = writer_close(report_buffer, workbook)

\* input_data = ...; predicted_condition = ...; disease_suggestion = ...
Classify ==
    /\ pc = "classify"
    /\ input_data' =
          [columns |-> <<"Systolic", "Diastolic", "Pulse", "Temperature",
                         "SPO2">>,
           rows |-> << <<systolic, diastolic, pulse, temperature, spo2>> >>]
    /\ predicted_condition' =
          classify_patient_condition(systolic, diastolic, pulse, temperature,
                                     spo2)
    /\ disease_suggestion' = disease_recommendation(predicted_condition')
    /\ pc' = "main_output"
    /\ UNCHANGED <<failed, sliders, page, shown, timeline, plot_data, arima,
                   report>>

\* st.subheader(...); st.write(...) x 5
MainOutput ==
    /\ pc = "main_output"
    /\ page' = page \o main_output(predicted_condition, disease_suggestion)
    /\ pc' = "timeline"
    /\ UNCHANGED <<failed, sliders, predicted, shown, timeline, plot_data,
                   arima, report>>

\* st.subheader(...); today = ...; time_data = ...; condition_data = ...;
\* plot_data = ...
Synthesize ==
    /\ pc = "timeline"
    /\ \E day \in 0..MaxDay : today' = day * HoursPerDay
    /\ time_data' = date_range(today', Periods)
    /\ condition_data' = split_condition_data(predicted_condition)
    /\ plot_data' = make_plot_data(time_data', condition_data')
    /\ page' = Append(page, Item("subheader", "Explore Patient Condition Data"))
    /\ pc' = "show_pie"
    /\ UNCHANGED <<failed, sliders, predicted, shown, arima, report>>

AfterShow(k) == IF k < Len(Charts) THEN "show_" \o Charts[k + 1] ELSE "binary"

\* st.write(heading); st.pyplot(plot_...(plot_data))
ShowChart(k) ==
    /\ pc = "show_" \o Charts[k]
    /\ \E ok \in BOOLEAN :
          IF ok
          THEN /\ page' = page \o << Item("write", chart_heading(Charts[k])),
                                     Item("pyplot", Charts[k]) >>
               /\ shown' = Append(shown, plot(Charts[k], plot_data))
               /\ pc' = AfterShow(k)
               /\ UNCHANGED failed
          ELSE /\ page' = Append(page, Item("write", chart_heading(Charts[k])))
               /\ UNCHANGED shown
               /\ Raise(pc)
    /\ UNCHANGED <<sliders, predicted, timeline, plot_data, arima, report>>

\* plot_data['Condition_Binary'] = plot_data["Condition"].apply(...)
ConditionBinary ==
    /\ pc = "binary"
    /\ plot_data' = with_condition_binary(plot_data)
    /\ pc' = "arima"
    /\ UNCHANGED <<failed, sliders, predicted, page, shown, timeline, arima,
                   report>>

\* model = ARIMA(plot_data['Condition_Binary'], order=(1, 1, 1));
\* model_fit = model.fit()
ArimaFit ==
    /\ pc = "arima"
    /\ \E ok \in BOOLEAN :
          IF ok
          THEN /\ model_fit' = "fitted"
               /\ pc' = "forecast"
               /\ UNCHANGED failed
          ELSE /\ UNCHANGED model_fit
               /\ Raise(pc)
    /\ UNCHANGED <<sliders, predicted, page, shown, timeline, plot_data,
                   future_pred, report>>

\* future_pred = model_fit.forecast(steps=24)
Forecast ==
    /\ pc = "forecast"
    /\ \E ok \in BOOLEAN :
          IF ok
          THEN /\ future_pred' = Repeat("score", ForecastSteps)
               /\ pc' = "open_writer"
               /\ UNCHANGED failed
          ELSE /\ UNCHANGED future_pred
               /\ Raise(pc)
    /\ UNCHANGED <<sliders, predicted, page, shown, timeline, plot_data,
                   model_fit, report>>

(***************************************************************************)
(* Report generation.                                                      *)
(***************************************************************************)
front == <<sliders, predicted, shown, timeline, plot_data, arima>>

\* st.write("#### Download Report"); report_buffer = BytesIO();
\* with pd.ExcelWriter(report_buffer, engine="xlsxwriter") as writer:
OpenWriter ==
    /\ pc = "open_writer"
    /\ page' = Append(page, Item("write", "#### Download Report"))
    /\ report_buffer' = BytesIO
    /\ \E ok \in BOOLEAN :
          IF ok
          THEN /\ writer' = "open"
               /\ workbook' = EmptyWorkbook
               /\ pc' = "write_input"
               /\ UNCHANGED failed
          ELSE /\ UNCHANGED <<writer, workbook>>
               /\ Raise(pc)
    /\ UNCHANGED <<front, worksheet, condition_counts, image, download>>

\* input_data.to_excel(writer, sheet_name="Patient Input Data")
WriteInput ==
    /\ pc = "write_input"
    /\ \E ok \in BOOLEAN :
          IF ok
          THEN /\ workbook' = to_excel(workbook, "Patient Input Data",
                                       input_table(input_data))
               /\ pc' = "write_ts"
               /\ UNCHANGED <<failed, writer, report_buffer>>
          ELSE /\ UNCHANGED workbook
               /\ RaiseInWith(pc)
    /\ UNCHANGED <<front, page, worksheet, condition_counts, image, download>>

\* plot_data.to_excel(writer, sheet_name="Time Series Data")
WriteTimeSeries ==
    /\ pc = "write_ts"
    /\ \E ok \in BOOLEAN :
          IF ok
          THEN /\ workbook' = to_excel(workbook, "Time Series Data",
                                       plot_table(plot_data))
               /\ pc' = "write_counts"
               /\ UNCHANGED <<failed, writer, report_buffer>>
          ELSE /\ UNCHANGED workbook
               /\ RaiseInWith(pc)
    /\ UNCHANGED <<front, page, worksheet, condition_counts, image, download>>

\* condition_counts = plot_data["Condition"].value_counts();
\* condition_counts.to_excel(writer, sheet_name="Condition Distribution")
WriteCounts ==
    /\ pc = "write_counts"
    /\ condition_counts' = value_counts(plot_data.Condition)
    /\ \E ok \in BOOLEAN :
          IF ok
          THEN /\ workbook' = to_excel(workbook, "Condition Distribution",
                                       counts_table(condition_counts'))
               /\ pc' = "get_sheet"
               /\ UNCHANGED <<failed, writer, report_buffer>>
          ELSE /\ UNCHANGED workbook
               /\ RaiseInWith(pc)
    /\ UNCHANGED <<front, page, worksheet, image, download>>

\* workbook = writer.book; worksheet = writer.sheets["Condition Distribution"]
\* (a KeyError when no table write has created the sheet)
GetSheet ==
    /\ pc = "get_sheet"
    /\ IF HasSheet(workbook, "Condition Distribution")
       THEN /\ worksheet' = "Condition Distribution"
            /\ pc' = "savefig_" \o Charts[1]
            /\ UNCHANGED <<failed, writer, report_buffer>>
       ELSE /\ UNCHANGED worksheet
            /\ RaiseInWith(pc)
    /\ UNCHANGED <<front, page, workbook, condition_counts, image, download>>

\* <k>_chart_fig = plot_...(plot_data); <k>_image = BytesIO();
\* <k>_chart_fig.savefig(<k>_image, format='png')
SaveFig(k) ==
    /\ pc = "savefig_" \o Charts[k]
    /\ \E ok \in BOOLEAN :
          IF ok
          THEN /\ \E n \in 1..MaxImageBytes :
                     image' = [image EXCEPT ![Charts[k]] =
                                  stream_write(BytesIO,
                                               plot(Charts[k], plot_data), n)]
               /\ pc' = "seek_" \o Charts[k]
               /\ UNCHANGED <<failed, writer, report_buffer>>
          ELSE /\ UNCHANGED image
               /\ RaiseInWith(pc)
    /\ UNCHANGED <<front, page, workbook, worksheet, condition_counts,
                   download>>

\* <k>_image.seek(0)
SeekImage(k) ==
    /\ pc = "seek_" \o Charts[k]
    /\ image' = [image EXCEPT ![Charts[k]] = seek(@, 0)]
    /\ pc' = "insert_" \o Charts[k]
    /\ UNCHANGED <<failed, front, page, report_buffer, writer, workbook,
                   worksheet, condition_counts, download>>

image_anchor(k) ==
    CASE k = "pie" -> "G2"
      [] k = "bar" -> "G20"
      [] k = "ts"  -> "G40"

image_filename(k) ==
    CASE k = "pie" -> "Pie Chart"
      [] k = "bar" -> "Bar Graph"
      [] k = "ts"  -> "Time Series"

AfterInsert(k) ==
    IF k < Len(Charts) THEN "savefig_" \o Charts[k + 1] ELSE "annotate"

\* worksheet.insert_image(anchor, filename, {'image_data': <k>_image})
InsertImage(k) ==
    /\ pc = "insert_" \o Charts[k]
    /\ \E ok \in BOOLEAN :
          IF ok
          THEN /\ workbook' = insert_image(workbook, worksheet,
                                           image_anchor(Charts[k]),
                                           image_filename(Charts[k]),
                                           image[Charts[k]])
               /\ pc' = AfterInsert(k)
               /\ UNCHANGED <<failed, writer, report_buffer>>
          ELSE /\ UNCHANGED workbook
               /\ RaiseInWith(pc)
    /\ UNCHANGED <<front, page, worksheet, condition_counts, image, download>>

\* worksheet.write("B2", "Disease Suggestion: " + disease_suggestion)
Annotate ==
    /\ pc = "annotate"
    /\ \E ok \in BOOLEAN :
          IF ok
          THEN /\ workbook' = worksheet_write(workbook, worksheet, "B2",
                                 "Disease Suggestion: " \o disease_suggestion)
               /\ pc' = "close"
               /\ UNCHANGED <<failed, writer, report_buffer>>
          ELSE /\ UNCHANGED workbook
               /\ RaiseInWith(pc)
    /\ UNCHANGED <<front, page, worksheet, condition_counts, image, download>>

\* The end of the with block: writer.close()
CloseWriter ==
    /\ pc = "close"
    /\ \E ok \in BOOLEAN :
          IF ok
          THEN /\ writer' = "closed"
               /\ report_buffer' = writer_close(report_buffer, workbook)
               /\ pc' = "seek_report"
               /\ UNCHANGED failed
          ELSE /\ UNCHANGED <<writer, report_buffer>>
               /\ Raise(pc)
    /\ UNCHANGED <<front, page, workbook, worksheet, condition_counts, image,
                   download>>

\* report_buffer.seek(0)
SeekReport ==
    /\ pc = "seek_report"
    /\ report_buffer' = seek(report_buffer, 0)
    /\ pc' = "download"
    /\ UNCHANGED <<failed, front, page, writer, workbook, worksheet,
                   condition_counts, image, download>>

\* st.download_button("Download Report", data=report_buffer, file_name=...)
Download ==
    /\ pc = "download"
    /\ download' = << [data |-> report_buffer,
                       file_name |-> "patient_condition_report_with_charts.xlsx"] >>
    /\ page' = Append(page, Item("download_button", "Download Report"))
    /\ pc' = "done"
    /\ UNCHANGED <<failed, front, report_buffer, writer, workbook, worksheet,
                   condition_counts, image>>

Next ==
    \/ Classify
    \/ MainOutput
    \/ Synthesize
    \/ \E k \in DOMAIN Charts : ShowChart(k)
    \/ ConditionBinary
    \/ ArimaFit
    \/ Forecast
    \/ OpenWriter
    \/ WriteInput
    \/ WriteTimeSeries
    \/ WriteCounts
    \/ GetSheet
    \/ \E k \in DOMAIN Charts : SaveFig(k)
    \/ \E k \in DOMAIN Charts : SeekImage(k)
    \/ \E k \in DOMAIN Charts : InsertImage(k)
    \/ Annotate
    \/ CloseWriter
    \/ SeekReport
    \/ Download

Spec == Init /\ [][Next]_vars

\* The classifier alone, over the wider set of readings.
NextClassify == Classify

SpecClassify == InitClassify /\ [][NextClassify]_vars

(***************************************************************************)
(* Properties.                                                             *)
(***************************************************************************)
Other(label) == IF label = "Normal" THEN "At Risk" ELSE "Normal"

Within(v, range) == range[1] <= v /\ v <= range[2]

InNormalRanges ==
    /\ Within(systolic, SystolicNormal)
    /\ Within(diastolic, DiastolicNormal)
    /\ Within(pulse, PulseNormal)
    /\ Within(temperature, TemperatureNormal)
    /\ Within(spo2, Spo2Normal)

\* C1: once the reading is classified, the label is Normal exactly when all
\* five values lie in their inclusive ranges, and At Risk otherwise, for
\* readings inside and outside the slider ranges.
C1_ClassifierRule ==
    predicted_condition # "" =>
        /\ predicted_condition \in {"Normal", "At Risk"}
        /\ predicted_condition = "Normal" <=> InNormalRanges

\* A reading with every value on a range boundary has been classified Normal.
C1_Witness ==
    /\ pc = "main_output"
    /\ systolic = 120 /\ diastolic = 60 /\ pulse = 100
    /\ temperature = 3650 /\ spo2 = 95
    /\ predicted_condition = "Normal"

\* C2: a failure of the ARIMA fit or of the forecast is caught and the run
\* goes on to report assembly; it never ends the run.
C2_ForecastFailureRecovered ==
    failed \in {"arima", "forecast"} => pc # "aborted"

\* C3: the timeline has 24 points, its timestamps start at the start instant
\* and step by one hour, points 0..17 carry the predicted label and points
\* 18..23 the other one.
C3_TimelineShape ==
    plot_data # NoFrame =>
        /\ Len(plot_data.Time) = 24
        /\ Len(plot_data.Condition) = 24
        /\ plot_data.Time[1] = today
        /\ \A i \in 1..23 : plot_data.Time[i + 1] = plot_data.Time[i] + 1
        /\ \A i \in 1..18 : plot_data.Condition[i] = predicted_condition
        /\ \A i \in 19..24 : plot_data.Condition[i] = Other(predicted_condition)

\* An At Risk timeline starting on a later day has been built.
C3_Witness ==
    /\ pc = "show_pie"
    /\ predicted_condition = "At Risk"
    /\ today = 24
    /\ plot_data.Time[24] = 47

IsRiskSeries(series, conditions) ==
    /\ Len(series) = Len(conditions)
    /\ Len(series) = 24
    /\ \A i \in DOMAIN series :
          /\ series[i] \in {0, 1}
          /\ series[i] = 1 <=> conditions[i] = "At Risk"

\* C4: the binary series has the length of the timeline and is 1 exactly at
\* the At Risk points: as the Condition_Binary column, as that column in the
\* Time Series Data sheet, and as the series of every time-series chart
\* displayed or embedded.
C4_BinaryAligned ==
    /\ Len(plot_data.columns) = 3 =>
          IsRiskSeries(plot_data.Condition_Binary, plot_data.Condition)
    /\ HasSheet(workbook, "Time Series Data") =>
          \A i \in 1..24 :
              workbook.cells["Time Series Data"][<<i, 3>>] =
                  Num(IF plot_data.Condition[i] = "At Risk" THEN 1 ELSE 0)
    /\ \A j \in DOMAIN shown :
          shown[j].kind = "line" =>
              IsRiskSeries(shown[j].values, plot_data.Condition)
    /\ \A j \in DOMAIN workbook.images :
          /\ workbook.images[j].data # <<>>
          /\ workbook.images[j].data[1].kind = "line" =>
                IsRiskSeries(workbook.images[j].data[1].values,
                             plot_data.Condition)

\* A run for a Normal reading has finished with the column written and the
\* time-series chart displayed and embedded.
C4_Witness ==
    /\ pc = "done"
    /\ predicted_condition = "Normal"
    /\ Len(shown) = 3
    /\ plot_data.Condition_Binary[19] = 1

LabelShown ==
    \E i \in DOMAIN page :
        page[i] = Item("write", "Predicted Condition: **"
                                \o predicted_condition \o "**")

AdviceShown ==
    /\ disease_suggestion # ""
    /\ \E i \in DOMAIN page : page[i] = Item("write", disease_suggestion)

\* C5: whenever the run is at, or past, the forecasting step, or has failed
\* in it, the predicted label and the advice are already on the page.
C5_ShownBeforeForecast ==
    (\/ pc \in {"arima", "forecast"}
     \/ failed \in {"arima", "forecast"}
     \/ model_fit = "fitted")
    => (predicted_condition # "" /\ LabelShown /\ AdviceShown)

\* The fit has failed and the label and the advice are on the page.
C5_Witness ==
    /\ failed = "arima"
    /\ pc = "aborted"
    /\ LabelShown
    /\ AdviceShown

TableKept(wb, name, t) ==
    /\ HasSheet(wb, name)
    /\ \A rc \in DOMAIN to_excel_cells(t) :
          /\ rc \in DOMAIN wb.cells[name]
          /\ wb.cells[name][rc] = to_excel_cells(t)[rc]

\* C6: in the report handed to the download, every cell of the three tables
\* holds the value its table write put there.
C6_TablesIntact ==
    download # <<>> =>
        LET wb == download[1].data.data[1]
        IN  /\ TableKept(wb, "Patient Input Data", input_table(input_data))
            /\ TableKept(wb, "Time Series Data", plot_table(plot_data))
            /\ TableKept(wb, "Condition Distribution",
                         counts_table(condition_counts))

Complete(buf) ==
    /\ buf.data # <<>>
    /\ LET wb == buf.data[1]
       IN  /\ wb.sheets = <<"Patient Input Data", "Time Series Data",
                            "Condition Distribution">>
           /\ Len(wb.images) = 3
           /\ wb.cells["Condition Distribution"][<<1, 1>>] =
                 Str("Disease Suggestion: " \o disease_suggestion)

\* C7: a run in which a step has failed hands nothing to the download, and
\* the download step is reached only with no failure, the writer closed and
\* the stream holding all three tables, three images and the annotation.
C7_NoPartialArtifact ==
    /\ failed # "" => (download = <<>> /\ pc = "aborted")
    /\ pc \in {"download", "done"} =>
          (failed = "" /\ writer = "closed" /\ Complete(report_buffer))
    /\ download # <<>> => Complete(download[1].data)

\* An image insertion has failed: the stream holds a partial workbook and
\* nothing has been handed to the download.
C7_Witness ==
    /\ failed = "insert_bar"
    /\ pc = "aborted"
    /\ report_buffer.size > 0
    /\ download = <<>>

\* C8: every image in the workbook was inserted into a sheet that a table
\* write had created, from a written buffer whose cursor was back at 0; the
\* stream reaches the download with the writer closed, flushed, and its
\* cursor at 0.
C8_Ordering ==
    /\ \A j \in DOMAIN workbook.images :
          LET img == workbook.images[j]
          IN  /\ img.sheet = "Condition Distribution"
              /\ HasSheet(workbook, img.sheet)
              /\ <<1, 0>> \in DOMAIN workbook.cells[img.sheet]
              /\ img.size > 0
              /\ img.pos = 0
    /\ pc = "download" =>
          (writer = "closed" /\ report_buffer.size > 0
           /\ report_buffer.pos = 0)
    /\ download # <<>> =>
          (writer = "closed" /\ download[1].data.size > 0
           /\ download[1].data.pos = 0)

\* The report has been handed over with its three images.
C8_Witness ==
    /\ download # <<>>
    /\ Len(workbook.images) = 3
    /\ image["ts"].size = MaxImageBytes

C9_SameData ==
    /\ \A j \in DOMAIN shown : shown[j] = plot(Charts[j], plot_data)
    /\ \A j \in DOMAIN workbook.images :
          workbook.images[j].data = <<shown[j]>>
    /\ HasSheet(workbook, "Time Series Data") =>
          \A i \in 1..24 :
              /\ workbook.cells["Time Series Data"][<<i, 1>>] =
                    Date(plot_data.Time[i])
              /\ workbook.cells["Time Series Data"][<<i, 2>>] =
                    Str(plot_data.Condition[i])
    /\ HasSheet(workbook, "Patient Input Data") =>
          \A j \in 1..5 :
              workbook.cells["Patient Input Data"][<<1, j>>] = Num(sliders[j])

C9_Step ==
    shown # <<>> =>
        /\ plot_data'.Time = plot_data.Time
        /\ plot_data'.Condition = plot_data.Condition
        /\ input_data' = input_data
        /\ sliders' = sliders

\* C9: from the first chart display on, no step changes the timeline's
\* timestamps or labels or the reading, and the charts displayed, the charts
\* embedded and the tables written all describe that timeline and reading.
C9_ConsistentSnapshot == [] C9_SameData /\ [][C9_Step]_vars

\* A run has finished with three charts displayed, the same three embedded,
\* and the derived column added.
C9_Witness ==
    /\ pc = "done"
    /\ Len(shown) = 3
    /\ Len(workbook.images) = 3
    /\ plot_data.columns = <<"Time", "Condition", "Condition_Binary">>

Changes(series) ==
    {i \in 1..(Len(series) - 1) : series[i] # series[i + 1]}

\* C10: the timeline has 18 points with the predicted label and 6 with the
\* other; the binary series is neither all 0 nor all 1 and changes value
\* once, between index 17 and 18 (0 to 1 for Normal, 1 to 0 for At Risk);
\* the label-frequency table has two rows, with counts 18 and 6, and the
\* table write puts them in two rows of the Condition Distribution sheet.
C10_BothLabels ==
    /\ plot_data # NoFrame =>
          /\ CountOf(plot_data.Condition, predicted_condition) = 18
          /\ CountOf(plot_data.Condition, Other(predicted_condition)) = 6
    /\ Len(plot_data.columns) = 3 =>
          LET series == plot_data.Condition_Binary
          IN  /\ \E i \in DOMAIN series : series[i] = 0
              /\ \E i \in DOMAIN series : series[i] = 1
              /\ Changes(series) = {18}
              /\ series[18] = (IF predicted_condition = "Normal" THEN 0 ELSE 1)
              /\ series[19] = (IF predicted_condition = "Normal" THEN 1 ELSE 0)
    /\ condition_counts.index # <<>> =>
          /\ condition_counts.index =
                <<predicted_condition, Other(predicted_condition)>>
          /\ condition_counts.values = <<18, 6>>
    /\ pc = "get_sheet" =>
          LET cells == workbook.cells["Condition Distribution"]
          IN  /\ cells[<<1, 0>>] = Str(predicted_condition)
              /\ cells[<<1, 1>>] = Num(18)
              /\ cells[<<2, 0>>] = Str(Other(predicted_condition))
              /\ cells[<<2, 1>>] = Num(6)
              /\ <<3, 0>> \notin DOMAIN cells

\* The counts of an At Risk timeline have been written.
C10_Witness ==
    /\ pc = "get_sheet"
    /\ predicted_condition = "At Risk"
    /\ condition_counts.values = <<18, 6>>
    /\ plot_data.Condition_Binary[18] = 1

====
